---- MODULE Spec2Model ----
(***************************************************************************)
(* State-machine model of the Atarax-AI desktop supervisor                 *)
(* (ataraxai-ui/src-tauri/src/lib.rs): the Python sidecar's spawn, the     *)
(* readiness handshake over its stdout, the shared ApiState / ApiProcess   *)
(* cells, the stop command, the window-destroyed handler and the           *)
(* bounded-wait get_api_info query; and of the in-memory project /         *)
(* session / message commands (ataraxai-ui/src-tauri/src/main.rs) with     *)
(* their RwLocks.                                                          *)
(***************************************************************************)
EXTENDS Integers, Sequences, FiniteSets, TLC

(***************************************************************************)
(* Bounds of the model.                                                    *)
(***************************************************************************)
\* Number of output events (Stdout / Stderr / Error) the worker may send
\* before its terminal event.
MaxEvents == 3
\* Number of stop_python_sidecar invocations issued by the UI.
MaxStops == 2
\* Clock resolution of the query model: ticks per second.
TicksPerSecond == 2
\* Largest overshoot, in ticks, of one tokio::time::sleep beyond its duration.
MaxOvershoot == 1
\* Concurrently running CRUD commands.
MaxTasks == 2
\* CRUD commands invoked in one run.
MaxCommands == 4
\* Project ids and session ids that generate_id() hands out.
MaxIds == 2

(***************************************************************************)
(* Program constants.                                                      *)
(***************************************************************************)
\* port: u16
U16Max == 65535
\* Duration::from_secs(120)
TimeoutSecs == 120
\* Duration::from_millis(1000)
PollMillis == 1000

VARIABLES
    api_state,           \* ApiState: None or Some(ApiInfo)
    api_process,         \* ApiProcess: None or Some(CommandChild)
    pc,                  \* position of the start_python_sidecar task
    handshake_complete,  \* local of start_python_sidecar
    result,              \* what start_python_sidecar returned
    emitted,             \* events emitted to the application, in order
    worker,              \* the OS process behind the CommandChild
    rx,                  \* the channel: CommandEvents sent and not yet received
    n_sent,              \* number of output events the worker has sent
    event,               \* the event rx.recv() returned last
    stop_results,        \* return values of the stop_python_sidecar calls
    destroyed,           \* the WindowEvent::Destroyed handler has run
    kills,               \* number of child.kill() calls issued
    q_pc,                \* position of the get_api_info call
    q_result,            \* what get_api_info returned
    now,                 \* ticks since the get_api_info call began
    published_at,        \* tick at which set_info ran during the call, or -1
    last_poll,           \* tick of the call's latest get_info poll, or -1
    projects,            \* AppState.projects: the ids of the stored projects
    sessions,            \* AppState.sessions: session id -> its project_id
    messages,            \* AppState.messages: session id -> roles of its messages
    lock,                \* per RwLock, the task holding it for writing, or 0
    task,                \* per task, the command it runs and where it is
    n_cmds,              \* commands invoked so far
    next_pid,            \* next project id generate_id() returns
    next_sid             \* next session id generate_id() returns

sidecarVars == <<api_state, api_process, pc, handshake_complete, result,
                 emitted, worker, rx, n_sent, event, stop_results, destroyed,
                 kills>>
queryVars == <<q_pc, q_result, now, published_at, last_poll>>
crudVars == <<projects, sessions, messages, lock, task, n_cmds, next_pid,
              next_sid>>
vars == <<sidecarVars, queryVars, crudVars>>

None == [some |-> FALSE]
Some(v) == [some |-> TRUE, val |-> v]

(***************************************************************************)
(* The bytes of one line of worker output.                                 *)
(***************************************************************************)
NonUtf8Line == [enc |-> "binary"]
TextLine == [enc |-> "utf8", syntax |-> "text"]
JsonLine(o) == [enc |-> "utf8", syntax |-> "json", obj |-> o]

Ready1 == JsonLine([status |-> "ready", port |-> 8000, token |-> "t1"])
Ready2 == JsonLine([status |-> "ready", port |-> 9000, token |-> "t2"])
Starting == JsonLine([status |-> "starting", port |-> 8000, token |-> "t1"])
BadPort == JsonLine([status |-> "ready", port |-> U16Max + 1, token |-> "t1"])
NoToken == JsonLine([status |-> "ready", port |-> 8000])

StdoutLines == {NonUtf8Line, TextLine, Ready1, Ready2, Starting, BadPort, NoToken}
StderrLines == {Ready1}

Stdout(l) == [type |-> "Stdout", line |-> l]
Stderr(l) == [type |-> "Stderr", line |-> l]
Error(l) == [type |-> "Error", line |-> l]
Terminated == [type |-> "Terminated"]
\* Before the first rx.recv() returns.
NoEvent == [type |-> "none"]

OutputEvents ==
    {Stdout(l) : l \in StdoutLines} \cup {Stderr(l) : l \in StderrLines}
        \cup {Error(Ready1)}

(***************************************************************************)
(* Decoding.                                                               *)
(***************************************************************************)
Err == [ok |-> FALSE]
Ok(v) == [ok |-> TRUE, val |-> v]

\* String::from_utf8(line)
FromUtf8(line) ==
    IF line.enc = "utf8" THEN Ok(line) ELSE Err

\* Mutant: the port is narrowed to 16 bits instead of being range-checked
\* and a missing token is defaulted to the empty string.
FromStrApiInfo_Lenient(str) ==
    IF /\ str.syntax = "json"
       /\ {"port", "status"} \subseteq DOMAIN str.obj
    THEN Ok([port |-> str.obj.port % (U16Max + 1),
             token |-> IF "token" \in DOMAIN str.obj THEN str.obj.token ELSE "",
             status |-> str.obj.status])
    ELSE Err

\* serde_json::from_str::<ApiInfo>(&line_str): every field of the struct
\* must be present and of its type; port is a u16.
FromStrApiInfo(str) ==
    IF /\ str.syntax = "json"
       /\ {"port", "token", "status"} \subseteq DOMAIN str.obj
       /\ str.obj.port \in 0..U16Max
    THEN Ok([port |-> str.obj.port, token |-> str.obj.token,
             status |-> str.obj.status])
    ELSE Err

\* ApiState::set_info
set_info(info) == Some(info)

\* ApiState::get_info
get_info == api_state

(***************************************************************************)
(* The channel between the worker and the supervisor task.                 *)
(***************************************************************************)
\* Every sender is dropped once the process has been waited for.
closed == worker \in {"exited", "killed", "lost"}

\* AppState::new(): empty maps, free locks, no command running.
Idle == [cmd |-> "none", pc |-> "idle", result |-> "none"]
Tasks == 1..MaxTasks
InitCrud ==
    /\ projects = {}
    /\ sessions = <<>>
    /\ messages = <<>>
    /\ lock = [l \in {"projects", "sessions", "messages"} |-> 0]
    /\ task = [t \in Tasks |-> Idle]
    /\ n_cmds = 0
    /\ next_pid = 1
    /\ next_sid = 1

InitSidecar ==
    /\ api_state = None
    /\ api_process = None
    /\ pc = "start"
    /\ handshake_complete = FALSE
    /\ result = "running"
    /\ emitted = <<>>
    /\ worker = "unspawned"
    /\ rx = <<>>
    /\ n_sent = 0
    /\ event = NoEvent
    /\ stop_results = <<>>
    /\ destroyed = FALSE
    /\ kills = 0
    /\ q_pc = "idle"
    /\ q_result = None
    /\ now = 0
    /\ published_at = -1
    /\ last_poll = -1

Init == InitSidecar /\ InitCrud

(***************************************************************************)
(* The worker process and the shell plugin's event stream.                 *)
(***************************************************************************)
\* The worker writes a line, or the plugin reports a read error.
WorkerEmit ==
    /\ worker = "running"
    /\ n_sent < MaxEvents
    /\ n_sent' = n_sent + 1
    /\ \E e \in OutputEvents : rx' = Append(rx, e)
    /\ UNCHANGED <<api_state, api_process, pc, handshake_complete, result,
                   emitted, worker, event, stop_results, destroyed, kills>>
    /\ UNCHANGED queryVars
    /\ UNCHANGED crudVars

\* The worker exits by itself: the plugin's wait thread sends Terminated
\* and the channel closes.
WorkerExit ==
    /\ worker = "running"
    /\ worker' = "exited"
    /\ rx' = Append(rx, Terminated)
    /\ UNCHANGED <<api_state, api_process, pc, handshake_complete, result,
                   emitted, n_sent, event, stop_results, destroyed, kills>>
    /\ UNCHANGED queryVars
    /\ UNCHANGED crudVars

\* Waiting for the process fails: the plugin sends Error instead of
\* Terminated and the channel closes.
WorkerWaitFail ==
    /\ worker = "running"
    /\ worker' = "lost"
    /\ rx' = Append(rx, Error(TextLine))
    /\ UNCHANGED <<api_state, api_process, pc, handshake_complete, result,
                   emitted, n_sent, event, stop_results, destroyed, kills>>
    /\ UNCHANGED queryVars
    /\ UNCHANGED crudVars

\* child.kill(): the call may fail; when it succeeds on a live process the
\* process dies and the wait thread sends Terminated.
kill(outcome) ==
    /\ kills' = kills + 1
    /\ IF outcome = "ok" /\ worker = "running"
       THEN /\ worker' = "killed"
            /\ rx' = Append(rx, Terminated)
       ELSE UNCHANGED <<worker, rx>>

(***************************************************************************)
(* start_python_sidecar, run by the task that setup spawns.                *)
(***************************************************************************)
\* Mutant: the closure drops the error instead of emitting sidecar-error.
SetupTaskReturn_Silent(r) ==
    /\ pc' = "done"
    /\ result' = r
    /\ emitted' = emitted

\* The task's closure in setup: an Err is reported as sidecar-error.
SetupTaskReturn(r) ==
    /\ pc' = "done"
    /\ result' = r
    /\ emitted' = IF r = "Ok" THEN emitted ELSE Append(emitted, "sidecar-error")

\* Path resolution and spawn; either may fail with `?`.
SupSpawn ==
    /\ pc = "start"
    /\ \E outcome \in {"resolve_err", "spawn_err", "ok"} :
         IF outcome = "ok"
         THEN /\ worker' = "running"
              /\ pc' = "spawned"
              /\ UNCHANGED <<result, emitted>>
         ELSE /\ SetupTaskReturn(outcome)
              /\ UNCHANGED worker
    /\ UNCHANGED <<api_state, api_process, handshake_complete, rx, n_sent, event,
                   stop_results, destroyed, kills>>
    /\ UNCHANGED queryVars
    /\ UNCHANGED crudVars

\* *api_process_state.0.lock().unwrap() = Some(child)
SupStore ==
    /\ pc = "spawned"
    /\ api_process' = Some("child")
    /\ pc' = "recv"
    /\ UNCHANGED <<api_state, handshake_complete, result, emitted, worker, rx,
                   n_sent, event, stop_results, destroyed, kills>>
    /\ UNCHANGED queryVars
    /\ UNCHANGED crudVars

\* Mutant: the handshake_complete test is inverted, so no record is ever
\* published.
OnStdout_Inverted(line) ==
    LET utf8 == FromUtf8(line) IN
    IF utf8.ok /\ handshake_complete
    THEN LET parsed == FromStrApiInfo(utf8.val) IN
         IF parsed.ok /\ parsed.val.status = "ready"
         THEN <<set_info(parsed.val), TRUE>>
         ELSE <<api_state, handshake_complete>>
    ELSE <<api_state, handshake_complete>>

\* Mutant: handshake_complete is not consulted, so every ready record is
\* published.
OnStdout_Overwrites(line) ==
    LET utf8 == FromUtf8(line) IN
    IF utf8.ok
    THEN LET parsed == FromStrApiInfo(utf8.val) IN
         IF parsed.ok /\ parsed.val.status = "ready"
         THEN <<set_info(parsed.val), TRUE>>
         ELSE <<api_state, handshake_complete>>
    ELSE <<api_state, handshake_complete>>

\* The CommandEvent::Stdout arm: the new <<ApiState, handshake_complete>>.
OnStdout(line) ==
    LET utf8 == FromUtf8(line) IN
    IF utf8.ok /\ ~handshake_complete
    THEN LET parsed == FromStrApiInfo(utf8.val) IN
         IF parsed.ok /\ parsed.val.status = "ready"
         THEN <<set_info(parsed.val), TRUE>>
         ELSE <<api_state, handshake_complete>>
    ELSE <<api_state, handshake_complete>>

\* Mutant: the Stderr and Error arms feed their text to the Stdout arm.
SupRecv_DiagnosticsParsed ==
    /\ pc = "recv"
    /\ rx # <<>>
    /\ event' = Head(rx)
    /\ rx' = Tail(rx)
    /\ LET ev == Head(rx) IN
       CASE ev.type \in {"Stdout", "Stderr", "Error"} ->
              /\ api_state' = OnStdout(ev.line)[1]
              /\ handshake_complete' = OnStdout(ev.line)[2]
              /\ published_at' =
                   IF q_pc \in {"check", "sleeping"} /\ api_state' # api_state
                   THEN now ELSE published_at
              /\ UNCHANGED <<pc, result, emitted>>
         [] ev.type = "Terminated" ->
              /\ IF ~handshake_complete
                 THEN SetupTaskReturn("Err: terminated before ready")
                 ELSE SetupTaskReturn("Ok")
              /\ UNCHANGED <<api_state, handshake_complete, published_at>>
    /\ UNCHANGED <<api_process, worker, n_sent, stop_results, destroyed, kills>>
    /\ UNCHANGED <<q_pc, q_result, now, last_poll>>
    /\ UNCHANGED crudVars

\* One iteration of `while let Some(event) = rx.recv().await`.
SupRecv ==
    /\ pc = "recv"
    /\ rx # <<>>
    /\ event' = Head(rx)
    /\ rx' = Tail(rx)
    /\ LET ev == Head(rx) IN
       CASE ev.type = "Stdout" ->
              /\ api_state' = OnStdout(ev.line)[1]
              /\ handshake_complete' = OnStdout(ev.line)[2]
              /\ published_at' =
                   IF q_pc \in {"check", "sleeping"} /\ api_state' # api_state
                   THEN now ELSE published_at
              /\ UNCHANGED <<pc, result, emitted>>
         [] ev.type \in {"Stderr", "Error"} ->
              UNCHANGED <<api_state, handshake_complete, pc, result, emitted,
                          published_at>>
         [] ev.type = "Terminated" ->
              /\ IF ~handshake_complete
                 THEN SetupTaskReturn("Err: terminated before ready")
                 ELSE SetupTaskReturn("Ok")
              /\ UNCHANGED <<api_state, handshake_complete, published_at>>
    /\ UNCHANGED <<api_process, worker, n_sent, stop_results, destroyed, kills>>
    /\ UNCHANGED <<q_pc, q_result, now, last_poll>>
    /\ UNCHANGED crudVars

\* rx.recv() yields None: every sender is gone and the queue is drained.
\* The loop ends and the function returns Ok(()).
SupClosed ==
    /\ pc = "recv"
    /\ rx = <<>>
    /\ closed
    /\ SetupTaskReturn("Ok")
    /\ UNCHANGED <<api_state, api_process, handshake_complete, worker, rx,
                   n_sent, event, stop_results, destroyed, kills>>
    /\ UNCHANGED queryVars
    /\ UNCHANGED crudVars

(***************************************************************************)
(* The stop command and the window-destroyed handler.                      *)
(***************************************************************************)
NoSidecar == "No sidecar process was running."

\* Mutant: an empty slot is reported as success.
stop_python_sidecar_OkWhenEmpty ==
    /\ Len(stop_results) < MaxStops
    /\ IF api_process.some
       THEN \E outcome \in {"ok", "err"} :
              /\ api_process' = None
              /\ kill(outcome)
              /\ stop_results' = Append(stop_results,
                    IF outcome = "ok" THEN "Ok" ELSE "Failed to kill sidecar")
       ELSE /\ stop_results' = Append(stop_results, "Ok")
            /\ UNCHANGED <<api_process, worker, rx, kills>>
    /\ UNCHANGED <<api_state, pc, handshake_complete, result, emitted, n_sent,
                   event, destroyed>>
    /\ UNCHANGED queryVars
    /\ UNCHANGED crudVars

stop_python_sidecar ==
    /\ Len(stop_results) < MaxStops
    /\ IF api_process.some
       THEN \E outcome \in {"ok", "err"} :
              /\ api_process' = None
              /\ kill(outcome)
              /\ stop_results' = Append(stop_results,
                    IF outcome = "ok" THEN "Ok" ELSE "Failed to kill sidecar")
       ELSE /\ stop_results' = Append(stop_results, NoSidecar)
            /\ UNCHANGED <<api_process, worker, rx, kills>>
    /\ UNCHANGED <<api_state, pc, handshake_complete, result, emitted, n_sent,
                   event, destroyed>>
    /\ UNCHANGED queryVars
    /\ UNCHANGED crudVars

\* Mutant: the handler kills through a reference and leaves the handle in
\* the slot.
on_window_event_NoTake ==
    /\ ~destroyed
    /\ destroyed' = TRUE
    /\ api_process' = api_process
    /\ IF api_process.some
       THEN \E outcome \in {"ok", "err"} : kill(outcome)
       ELSE UNCHANGED <<worker, rx, kills>>
    /\ UNCHANGED <<api_state, pc, handshake_complete, result, emitted, n_sent,
                   event, stop_results>>
    /\ UNCHANGED queryVars
    /\ UNCHANGED crudVars

on_window_event ==
    /\ ~destroyed
    /\ destroyed' = TRUE
    /\ api_process' = None
    /\ IF api_process.some
       THEN \E outcome \in {"ok", "err"} : kill(outcome)
       ELSE UNCHANGED <<worker, rx, kills>>
    /\ UNCHANGED <<api_state, pc, handshake_complete, result, emitted, n_sent,
                   event, stop_results>>
    /\ UNCHANGED queryVars
    /\ UNCHANGED crudVars

(***************************************************************************)
(* get_api_info: the bounded-wait query.  Time is counted in ticks since   *)
(* the call began (start = Instant::now()); it passes only while the call  *)
(* sleeps, and a sleep lasts its duration plus a bounded overshoot.        *)
(***************************************************************************)
\* timeout_duration
TimeoutTicks == TimeoutSecs * TicksPerSecond
\* poll_interval
PollTicks == (PollMillis * TicksPerSecond) \div 1000

\* Mutant: the query only accepts a descriptor whose status is spelled
\* "Ready".
QueryPoll_StatusMismatch ==
    /\ q_pc = "check"
    /\ IF now < TimeoutTicks
       THEN /\ last_poll' = now
            /\ IF get_info.some /\ get_info.val.status = "Ready"
               THEN /\ q_pc' = "ok"
                    /\ q_result' = Ok(get_info.val)
               ELSE /\ q_pc' = "sleeping"
                    /\ UNCHANGED q_result
       ELSE /\ q_pc' = "timeout"
            /\ q_result' = [ok |-> FALSE, elapsed |-> now]
            /\ UNCHANGED last_poll
    /\ UNCHANGED <<now, published_at>>
    /\ UNCHANGED sidecarVars
    /\ UNCHANGED crudVars

\* Mutant: the loop runs while elapsed <= timeout_duration.
QueryPoll_OffByOne ==
    /\ q_pc = "check"
    /\ IF now <= TimeoutTicks
       THEN /\ last_poll' = now
            /\ IF get_info.some
               THEN /\ q_pc' = "ok"
                    /\ q_result' = Ok(get_info.val)
               ELSE /\ q_pc' = "sleeping"
                    /\ UNCHANGED q_result
       ELSE /\ q_pc' = "timeout"
            /\ q_result' = [ok |-> FALSE, elapsed |-> now]
            /\ UNCHANGED last_poll
    /\ UNCHANGED <<now, published_at>>
    /\ UNCHANGED sidecarVars
    /\ UNCHANGED crudVars

\* The loop test and body up to the sleep, and the exit after the loop:
\* while start.elapsed() < timeout_duration, return the descriptor if
\* ApiState holds one, else sleep; past the bound, return the timeout error
\* with the elapsed time.
QueryPoll ==
    /\ q_pc = "check"
    /\ IF now < TimeoutTicks
       THEN /\ last_poll' = now
            /\ IF get_info.some
               THEN /\ q_pc' = "ok"
                    /\ q_result' = Ok(get_info.val)
               ELSE /\ q_pc' = "sleeping"
                    /\ UNCHANGED q_result
       ELSE /\ q_pc' = "timeout"
            /\ q_result' = [ok |-> FALSE, elapsed |-> now]
            /\ UNCHANGED last_poll
    /\ UNCHANGED <<now, published_at>>
    /\ UNCHANGED sidecarVars
    /\ UNCHANGED crudVars

\* Time passes during tokio::time::sleep(poll_interval).
QuerySleepTick ==
    /\ q_pc = "sleeping"
    /\ now < last_poll + PollTicks + MaxOvershoot
    /\ now' = now + 1
    /\ UNCHANGED <<q_pc, q_result, published_at, last_poll>>
    /\ UNCHANGED sidecarVars
    /\ UNCHANGED crudVars

\* The sleep completes, no earlier than poll_interval after it began.
QueryWake ==
    /\ q_pc = "sleeping"
    /\ now >= last_poll + PollTicks
    /\ q_pc' = "check"
    /\ UNCHANGED <<q_result, now, published_at, last_poll>>
    /\ UNCHANGED sidecarVars
    /\ UNCHANGED crudVars

\* The worker prints its ready record, once, at some moment of the call.
WorkerEmitReady ==
    /\ worker = "running"
    /\ n_sent = 0
    /\ n_sent' = 1
    /\ rx' = Append(rx, Stdout(Ready1))
    /\ UNCHANGED <<api_state, api_process, pc, handshake_complete, result,
                   emitted, worker, event, stop_results, destroyed, kills>>
    /\ UNCHANGED queryVars
    /\ UNCHANGED crudVars

\* get_api_info is invoked while the handshake task awaits the worker's
\* first line.
InitQuery ==
    /\ api_state = None
    /\ api_process = Some("child")
    /\ pc = "recv"
    /\ handshake_complete = FALSE
    /\ result = "running"
    /\ emitted = <<>>
    /\ worker = "running"
    /\ rx = <<>>
    /\ n_sent = 0
    /\ event = NoEvent
    /\ stop_results = <<>>
    /\ destroyed = FALSE
    /\ kills = 0
    /\ q_pc = "check"
    /\ q_result = None
    /\ now = 0
    /\ published_at = -1
    /\ last_poll = -1
    /\ InitCrud

NextQuery ==
    \/ QueryPoll
    \/ QuerySleepTick
    \/ QueryWake
    \/ WorkerEmitReady
    \/ SupRecv

SpecQuery == InitQuery /\ [][NextQuery]_vars

(***************************************************************************)
(* The project / session / message commands of main.rs.  A task runs one   *)
(* command at a time; a step is what the command does between two awaits.  *)
(* A lock taken and dropped with no await in between is held inside one    *)
(* step; delete_project and delete_session keep locks across awaits.       *)
(***************************************************************************)
Ids == 1..MaxIds
Restrict(f, S) == [x \in S |-> f[x]]
\* HashMap::insert
Insert(f, k, v) == [x \in DOMAIN f \cup {k} |-> IF x = k THEN v ELSE f[x]]
\* The task's command returned r.
Returned(r) == [cmd |-> "none", pc |-> "idle", result |-> r]
\* RwLock::read / RwLock::write can be granted: no task holds the lock for
\* writing (read guards never live across an await).
Free(l) == lock[l] = 0

\* The order in which a command takes the locks it keeps until it returns.
delete_project_locks == <<"projects", "sessions", "messages">>
\* Mutant: delete_session takes messages before sessions.
delete_session_locks_Reversed == <<"messages", "sessions">>
delete_session_locks == <<"sessions", "messages">>
LockPlan(cmd) ==
    IF cmd = "delete_project" THEN delete_project_locks ELSE delete_session_locks

\* generate_id() never repeats: ids are drawn from a counter, and a create
\* command is invoked only while an id is left for it.
Pending(cmd) ==
    Cardinality({u \in Tasks : task[u].cmd = cmd /\ task[u].valid})

\* A command is invoked with its arguments.
Invoke(t) ==
    /\ task[t].pc = "idle"
    /\ n_cmds < MaxCommands
    /\ n_cmds' = n_cmds + 1
    /\ \/ \E valid \in BOOLEAN :
            /\ valid => next_pid + Pending("create_project") <= MaxIds
            /\ task' = [task EXCEPT ![t] =
                          [cmd |-> "create_project", pc |-> "insert",
                           valid |-> valid]]
       \/ \E pid \in Ids :
            task' = [task EXCEPT ![t] =
                       [cmd |-> "delete_project", pc |-> "lock", k |-> 0,
                        pid |-> pid]]
       \/ \E pid \in Ids, valid \in BOOLEAN :
            /\ valid => next_sid + Pending("create_session") <= MaxIds
            /\ task' = [task EXCEPT ![t] =
                          [cmd |-> "create_session", pc |-> "check",
                           pid |-> pid, valid |-> valid]]
       \/ \E sid \in Ids :
            task' = [task EXCEPT ![t] =
                       [cmd |-> "delete_session", pc |-> "lock", k |-> 0,
                        sid |-> sid]]
       \/ \E sid \in Ids, valid \in BOOLEAN :
            task' = [task EXCEPT ![t] =
                       [cmd |-> "send_message", pc |-> "check", sid |-> sid,
                        valid |-> valid, reply |-> "none"]]
       \/ \E sid \in Ids :
            task' = [task EXCEPT ![t] =
                       [cmd |-> "clear_messages", pc |-> "insert", sid |-> sid]]
    /\ UNCHANGED <<projects, sessions, messages, lock, next_pid, next_sid>>
    /\ UNCHANGED <<sidecarVars, queryVars>>

\* create_project: validate, generate the id, insert under projects.write().
create_project(t) ==
    /\ task[t].cmd = "create_project"
    /\ IF ~task[t].valid
       THEN /\ task' = [task EXCEPT ![t] = Returned("Validation Error")]
            /\ UNCHANGED <<projects, next_pid>>
       ELSE /\ Free("projects")
            /\ projects' = projects \cup {next_pid}
            /\ next_pid' = next_pid + 1
            /\ task' = [task EXCEPT ![t] = Returned("Ok")]
    /\ UNCHANGED <<sessions, messages, lock, n_cmds, next_sid>>
    /\ UNCHANGED <<sidecarVars, queryVars>>

\* delete_project and delete_session: one write() that is awaited and kept.
AcquireLock(t) ==
    /\ task[t].pc = "lock"
    /\ task[t].k + 1 < Len(LockPlan(task[t].cmd))
    /\ Free(LockPlan(task[t].cmd)[task[t].k + 1])
    /\ lock' = [lock EXCEPT ![LockPlan(task[t].cmd)[task[t].k + 1]] = t]
    /\ task' = [task EXCEPT ![t].k = @ + 1]
    /\ UNCHANGED <<projects, sessions, messages, n_cmds, next_pid, next_sid>>
    /\ UNCHANGED <<sidecarVars, queryVars>>

\* The guards of task t are dropped when its command returns.
ReleaseAll(t) == [l \in DOMAIN lock |-> IF lock[l] = t THEN 0 ELSE lock[l]]

\* delete_project after its last write(): remove the project or fail; keep
\* the sessions of other projects; collect, from the map that retain left,
\* the ids of the project's sessions and remove their message lists.
delete_project(t) ==
    /\ task[t].cmd = "delete_project"
    /\ task[t].k + 1 = Len(delete_project_locks)
    /\ Free(delete_project_locks[task[t].k + 1])
    /\ LET project_id == task[t].pid IN
       IF project_id \notin projects
       THEN /\ task' = [task EXCEPT ![t] = Returned("Project not found")]
            /\ UNCHANGED <<projects, sessions, messages>>
       ELSE LET retained == Restrict(sessions,
                     {x \in DOMAIN sessions : sessions[x] # project_id})
                session_ids ==
                     {x \in DOMAIN retained : retained[x] = project_id}
            IN  /\ projects' = projects \ {project_id}
                /\ sessions' = retained
                /\ messages' = Restrict(messages, DOMAIN messages \ session_ids)
                /\ task' = [task EXCEPT ![t] = Returned("Ok")]
    /\ lock' = ReleaseAll(t)
    /\ UNCHANGED <<n_cmds, next_pid, next_sid>>
    /\ UNCHANGED <<sidecarVars, queryVars>>

\* create_session up to drop(projects): validate, then look the project up
\* under projects.read().
create_session_check(t) ==
    /\ task[t].cmd = "create_session"
    /\ task[t].pc = "check"
    /\ IF ~task[t].valid
       THEN task' = [task EXCEPT ![t] = Returned("Validation Error")]
       ELSE /\ Free("projects")
            /\ IF task[t].pid \notin projects
               THEN task' = [task EXCEPT ![t] = Returned("Project not found")]
               ELSE task' = [task EXCEPT ![t].pc = "insert"]
    /\ UNCHANGED <<projects, sessions, messages, lock, n_cmds, next_pid,
                   next_sid>>
    /\ UNCHANGED <<sidecarVars, queryVars>>

\* create_session from generate_id() on: insert under sessions.write().
create_session_insert(t) ==
    /\ task[t].cmd = "create_session"
    /\ task[t].pc = "insert"
    /\ Free("sessions")
    /\ sessions' = Insert(sessions, next_sid, task[t].pid)
    /\ next_sid' = next_sid + 1
    /\ task' = [task EXCEPT ![t] = Returned("Ok")]
    /\ UNCHANGED <<projects, messages, lock, n_cmds, next_pid>>
    /\ UNCHANGED <<sidecarVars, queryVars>>

\* delete_session after its last write(): remove the session or fail, then
\* remove its message list.
delete_session(t) ==
    /\ task[t].cmd = "delete_session"
    /\ task[t].k + 1 = Len(delete_session_locks)
    /\ Free(delete_session_locks[task[t].k + 1])
    /\ LET session_id == task[t].sid IN
       IF session_id \notin DOMAIN sessions
       THEN /\ task' = [task EXCEPT ![t] = Returned("Session not found")]
            /\ UNCHANGED <<sessions, messages>>
       ELSE /\ sessions' = Restrict(sessions, DOMAIN sessions \ {session_id})
            /\ messages' = Restrict(messages, DOMAIN messages \ {session_id})
            /\ task' = [task EXCEPT ![t] = Returned("Ok")]
    /\ lock' = ReleaseAll(t)
    /\ UNCHANGED <<projects, n_cmds, next_pid, next_sid>>
    /\ UNCHANGED <<sidecarVars, queryVars>>

\* entry(session_id).or_insert_with(Vec::new).push(message)
Push(session_id, role) ==
    Insert(messages, session_id,
           IF session_id \in DOMAIN messages
           THEN Append(messages[session_id], role) ELSE <<role>>)

\* send_message up to drop(sessions): validate, then look the session up
\* under sessions.read().
send_message_check(t) ==
    /\ task[t].cmd = "send_message"
    /\ task[t].pc = "check"
    /\ IF ~task[t].valid
       THEN task' = [task EXCEPT ![t] = Returned("Validation Error")]
       ELSE /\ Free("sessions")
            /\ IF task[t].sid \notin DOMAIN sessions
               THEN task' = [task EXCEPT ![t] = Returned("Session not found")]
               ELSE task' = [task EXCEPT ![t].pc = "push_user"]
    /\ UNCHANGED <<projects, sessions, messages, lock, n_cmds, next_pid,
                   next_sid>>
    /\ UNCHANGED <<sidecarVars, queryVars>>

\* send_message: push the user message under messages.write(), then send
\* the request.
send_message_user(t) ==
    /\ task[t].cmd = "send_message"
    /\ task[t].pc = "push_user"
    /\ Free("messages")
    /\ messages' = Push(task[t].sid, "user")
    /\ task' = [task EXCEPT ![t].pc = "http"]
    /\ UNCHANGED <<projects, sessions, lock, n_cmds, next_pid, next_sid>>
    /\ UNCHANGED <<sidecarVars, queryVars>>

\* send_message: the HTTP exchange ends.  A transport or body error returns
\* Err; otherwise the reply is an assistant or an error message.
send_message_http(t) ==
    /\ task[t].cmd = "send_message"
    /\ task[t].pc = "http"
    /\ \E outcome \in {"Network error", "Failed to parse response",
                       "assistant", "error"} :
         IF outcome \in {"assistant", "error"}
         THEN task' = [task EXCEPT ![t].pc = "push_reply", ![t].reply = outcome]
         ELSE task' = [task EXCEPT ![t] = Returned(outcome)]
    /\ UNCHANGED <<projects, sessions, messages, lock, n_cmds, next_pid,
                   next_sid>>
    /\ UNCHANGED <<sidecarVars, queryVars>>

\* send_message: push the reply under messages.write() and return it.
send_message_reply(t) ==
    /\ task[t].cmd = "send_message"
    /\ task[t].pc = "push_reply"
    /\ Free("messages")
    /\ messages' = Push(task[t].sid, task[t].reply)
    /\ task' = [task EXCEPT ![t] = Returned("Ok")]
    /\ UNCHANGED <<projects, sessions, lock, n_cmds, next_pid, next_sid>>
    /\ UNCHANGED <<sidecarVars, queryVars>>

\* clear_messages: messages.insert(session_id, Vec::new())
clear_messages(t) ==
    /\ task[t].cmd = "clear_messages"
    /\ Free("messages")
    /\ messages' = Insert(messages, task[t].sid, <<>>)
    /\ task' = [task EXCEPT ![t] = Returned("Ok")]
    /\ UNCHANGED <<projects, sessions, lock, n_cmds, next_pid, next_sid>>
    /\ UNCHANGED <<sidecarVars, queryVars>>

\* One step of task t that does not wait for the network.
LocalStep(t) ==
    \/ create_project(t)
    \/ AcquireLock(t)
    \/ delete_project(t)
    \/ create_session_check(t)
    \/ create_session_insert(t)
    \/ delete_session(t)
    \/ send_message_check(t)
    \/ send_message_user(t)
    \/ send_message_reply(t)
    \/ clear_messages(t)

NextCrud ==
    \E t \in Tasks : Invoke(t) \/ LocalStep(t) \/ send_message_http(t)

SpecCrud == Init /\ [][NextCrud]_vars

\* The state after one task has created a project and a session in it.
InitLoaded ==
    /\ InitSidecar
    /\ projects = {1}
    /\ sessions = Insert(<<>>, 1, 1)
    /\ messages = <<>>
    /\ lock = [l \in {"projects", "sessions", "messages"} |-> 0]
    /\ task = [t \in Tasks |-> IF t = 1 THEN Returned("Ok") ELSE Idle]
    /\ n_cmds = 2
    /\ next_pid = 2
    /\ next_sid = 2

\* Fair scheduling: while some task can take a step that does not wait for
\* the network, the runtime runs one (it polls every ready task, and a
\* released RwLock is handed to a waiter).  Nothing is assumed of the network.
SpecCrudFair ==
    InitLoaded /\ [][NextCrud]_vars /\ WF_vars(\E t \in Tasks : LocalStep(t))

Next ==
    \/ SupSpawn
    \/ SupStore
    \/ SupRecv
    \/ SupClosed
    \/ WorkerEmit
    \/ WorkerExit
    \/ WorkerWaitFail
    \/ stop_python_sidecar
    \/ on_window_event

Spec == Init /\ [][Next]_vars

(***************************************************************************)
(* Properties of the handshake and of the stop paths.                      *)
(***************************************************************************)
\* Lines of the wire format, classified by what they are on the wire.
NonDecodingLines == {NonUtf8Line, TextLine, BadPort, NoToken}
ReadyRecords == {Ready1, Ready2}
Fields(l) ==
    [port |-> l.obj.port, token |-> l.obj.token, status |-> l.obj.status]

\* A step in which rx.recv() returns an event to the handshake loop.
RecvStep == pc = "recv" /\ rx # <<>> /\ rx' = Tail(rx)
\* A step that is one stop_python_sidecar call.
StopStep == Len(stop_results') = Len(stop_results) + 1
\* A step that is the window-destroyed handler.
DestroyStep == ~destroyed /\ destroyed'
ErrResults ==
    {"resolve_err", "spawn_err", "Err: terminated before ready",
     "Err: closed before ready"}

\* C1: while no descriptor has been published, a stdout line that does not
\* decode as a readiness record leaves ApiState empty and the handshake
\* running, and a valid ready record publishes a descriptor whose port,
\* token and status are that record's fields.
C1_HandshakeSuccess ==
    [][(RecvStep /\ Head(rx).type = "Stdout" /\ api_state = None) =>
         LET l == Head(rx).line IN
         /\ l \in ReadyRecords => api_state' = Some(Fields(l))
         /\ l \in NonDecodingLines =>
              /\ api_state' = None
              /\ pc' = "recv"
              /\ result' = "running"
              /\ emitted' = emitted]_vars

\* Every event the worker sent was received, the last one a ready record
\* that is the published descriptor.
C1_Witness ==
    /\ n_sent = MaxEvents
    /\ rx = <<>>
    /\ event = Stdout(Ready2)
    /\ api_state = Some(Fields(Ready2))
    /\ pc = "recv"

\* C2: when the event stream closes with no ready record observed and no
\* Terminated event, the task returns an error, sidecar-error is emitted
\* and ApiState is empty.
C2_ClosedBeforeReady ==
    (pc = "done" /\ worker = "lost" /\ ~handshake_complete) =>
        /\ result \in ErrResults
        /\ emitted = <<"sidecar-error">>
        /\ api_state = None

\* C3: a successful stop (the command returning Ok, or the window-destroyed
\* handler killing the worker) after a successful handshake leaves ApiState
\* empty.
C3_StopClearsState ==
    [][(/\ api_state # None
        /\ \/ StopStep /\ stop_results'[Len(stop_results')] = "Ok"
           \/ DestroyStep /\ kills' > kills) =>
         get_info' = None]_vars

\* C4: stop_python_sidecar on an empty ApiProcess slot returns the
\* "No sidecar process was running." error, issues no kill and changes
\* neither ApiState nor the slot.
C4_StopOnEmptySlot ==
    [][(StopStep /\ api_process = None) =>
         /\ stop_results' = Append(stop_results, NoSidecar)
         /\ kills' = kills
         /\ worker' = worker
         /\ api_state' = api_state
         /\ api_process' = api_process]_vars

\* A second stop after one that killed the worker found the slot empty.
C4_Witness ==
    /\ stop_results = <<"Ok", NoSidecar>>
    /\ kills = 1
    /\ api_process = None

\* C5: of two stop_python_sidecar calls the second always returns the
\* "nothing to stop" error.
C5_SecondStopFindsNothing ==
    Len(stop_results) >= 2 => stop_results[2] = NoSidecar

\* C6: when the window-destroyed handler runs while a spawned worker is
\* alive, a kill has been attempted on that worker by the time the handler
\* returns.
C6_ShutdownKillsWorker ==
    [][(DestroyStep /\ worker = "running") => kills' > 0]_vars

\* C7: a worker killed by a stop while the handshake is incomplete does not
\* make the startup task return an error, and no sidecar-error is emitted.
C7_StopDuringHandshake ==
    worker = "killed" => (result \notin ErrResults /\ emitted = <<>>)

\* C10: a stdout line shaped like a ready record whose port is out of the
\* u16 range or whose token is missing changes neither ApiState nor the
\* handshake's progress, and a valid ready record that follows it is still
\* published.
C10_MalformedReadyRecord ==
    [][/\ (RecvStep /\ Head(rx) \in {Stdout(BadPort), Stdout(NoToken)}) =>
            /\ api_state' = api_state
            /\ handshake_complete' = handshake_complete
            /\ pc' = "recv"
            /\ result' = "running"
            /\ emitted' = emitted
       /\ (/\ RecvStep
           /\ event \in {Stdout(BadPort), Stdout(NoToken)}
           /\ api_state = None
           /\ Head(rx) \in {Stdout(l) : l \in ReadyRecords}) =>
            api_state' = Some(Fields(Head(rx).line))]_vars

\* A malformed ready record was the last line read and the handshake is
\* still awaiting a record.
C10_Witness ==
    /\ event \in {Stdout(BadPort), Stdout(NoToken)}
    /\ api_state = None
    /\ ~handshake_complete
    /\ pc = "recv"

\* Elements of a sequence.
Range(seq) == {seq[i] : i \in DOMAIN seq}
SpawnErrors == {"resolve_err", "spawn_err"}

\* C11: a run that publishes a descriptor emits sidecar-ready by the time
\* the startup task ends, and sidecar-ready is never emitted while ApiState
\* is empty.
C11_ReadyEventEmitted ==
    /\ (pc = "done" /\ api_state # None) => "sidecar-ready" \in Range(emitted)
    /\ "sidecar-ready" \in Range(emitted) => api_state # None

\* C12: when spawn fails, or Terminated is received before any ready record,
\* the startup task returns Err, ApiState is empty and exactly one
\* sidecar-error has been emitted; once the task has returned nothing
\* restarts it and no worker is spawned afterwards.
C12_StartupFailure ==
    /\ [](result \in SpawnErrors =>
            /\ pc = "done"
            /\ worker = "unspawned"
            /\ api_state = None
            /\ emitted = <<"sidecar-error">>)
    /\ []((pc = "done" /\ event = Terminated /\ ~handshake_complete) =>
            /\ result = "Err: terminated before ready"
            /\ api_state = None
            /\ emitted = <<"sidecar-error">>)
    /\ [][pc = "done" =>
            /\ UNCHANGED <<pc, result, emitted, api_state>>
            /\ worker = "unspawned" => worker' = "unspawned"]_vars

\* The worker exited by itself before printing a ready record and the task
\* reported it.
C12_Witness ==
    /\ worker = "exited"
    /\ event = Terminated
    /\ result = "Err: terminated before ready"
    /\ emitted = <<"sidecar-error">>
    /\ api_state = None

\* C13: ApiState is empty or holds a descriptor with status "ready", a u16
\* port and a token, and once it holds one no step changes it.
C13_PublishedOnce ==
    /\ [](api_state # None =>
            /\ api_state.val.status = "ready"
            /\ api_state.val.port \in 0..U16Max
            /\ api_state.val.token \in {"t1", "t2"})
    /\ [][api_state # None => api_state' = api_state]_vars

\* A second, different ready record was read after the first was published.
C13_Witness ==
    /\ api_state = Some(Fields(Ready1))
    /\ event = Stdout(Ready2)

\* C14: whenever the handle slot is empty because a stop took and killed
\* the handle, ApiState is empty, and after such a stop ApiState never
\* becomes non-empty.
C14_ClearedTogether ==
    /\ []((api_process = None /\ kills > 0) => api_state = None)
    /\ [][(kills > 0 /\ api_state = None) => api_state' = None]_vars

\* C15: once the startup task has received Terminated, the ApiProcess slot
\* is empty.
C15_HandleConsumedByExit ==
    (pc = "done" /\ event = Terminated) => api_process = None

\* C16: at most one kill is ever issued; a stop or window-destroyed step
\* kills exactly when it finds a handle in the slot, and leaves the slot
\* empty whatever the kill returned.
C16_KillAtMostOnce ==
    /\ [](kills <= 1)
    /\ [][(StopStep \/ DestroyStep) =>
            /\ api_process' = None
            /\ IF api_process # None THEN kills' = kills + 1
                                     ELSE kills' = kills]_vars

\* A stop took the handle and its kill failed; the next stop and the
\* window-destroyed handler found the slot empty.
C16_Witness ==
    /\ stop_results = <<"Failed to kill sidecar", NoSidecar>>
    /\ destroyed
    /\ kills = 1
    /\ api_process = None

\* C17: receiving a Stderr or Error event, whatever text it carries, changes
\* neither ApiState nor handshake_complete.
C17_StderrNeverHandshake ==
    [][(RecvStep /\ Head(rx).type \in {"Stderr", "Error"}) =>
         /\ api_state' = api_state
         /\ handshake_complete' = handshake_complete]_vars

\* A valid ready record arrived on stderr or as an Error and the handshake
\* is still awaiting one.
C17_Witness ==
    /\ event \in {Stderr(Ready1), Error(Ready1)}
    /\ api_state = None
    /\ ~handshake_complete
    /\ pc = "recv"

(***************************************************************************)
(* Properties of get_api_info, under SpecQuery.                            *)
(***************************************************************************)
\* C8 as claimed: a descriptor published at any time before the bound
\* elapses makes the call return Ok with it, never the timeout error, and
\* the call returns Ok only with a descriptor it found at a poll.
C8_PublishedBeforeBound ==
    /\ (published_at # -1 /\ published_at < TimeoutTicks) => q_pc # "timeout"
    /\ q_pc = "ok" => (published_at # -1 /\ q_result = Ok(Fields(Ready1)))

\* C8, amended: a descriptor published more than one poll interval and one
\* sleep overshoot before the bound elapses makes the call return Ok and
\* never the timeout error; Ok carries exactly the descriptor published no
\* later than the poll that returned it; a call that times out although a
\* descriptor was published saw it published after its last poll.
C8_PublishedBeforeLastPoll ==
    /\ (published_at # -1
          /\ published_at + PollTicks + MaxOvershoot < TimeoutTicks) =>
         q_pc # "timeout"
    /\ q_pc = "ok" =>
         /\ published_at # -1
         /\ published_at <= last_poll
         /\ q_result = Ok(Fields(Ready1))
         /\ api_state = Some(Fields(Ready1))
    /\ (q_pc = "timeout" /\ published_at # -1) => published_at >= last_poll

\* The descriptor was published 2 seconds after the call began and the call
\* returned it.
C8_Witness ==
    /\ published_at = 2 * TicksPerSecond
    /\ q_pc = "ok"
    /\ q_result = Ok(Fields(Ready1))

\* C9 as claimed: with ApiState never ready the call ends with the timeout
\* error, its elapsed time at least the bound and exceeding the bound by
\* less than one poll interval.
C9_TimeoutWithinOneInterval ==
    (q_pc = "timeout" /\ api_state = None) =>
        /\ q_result = [ok |-> FALSE, elapsed |-> now]
        /\ now >= TimeoutTicks
        /\ now - TimeoutTicks < PollTicks

\* C9, amended: the call ends with the timeout error only once the bound
\* has elapsed; its last poll was before the bound, so the elapsed time it
\* reports exceeds the bound by less than one poll interval plus the
\* overshoot of the final sleep; and a call still running has not waited
\* longer than that.
C9_TimeoutAfterLastPoll ==
    /\ (q_pc = "timeout" /\ api_state = None) =>
         /\ q_result = [ok |-> FALSE, elapsed |-> now]
         /\ now >= TimeoutTicks
         /\ last_poll < TimeoutTicks
         /\ now >= last_poll + PollTicks
    /\ q_pc \in {"check", "sleeping"} =>
         now < TimeoutTicks + PollTicks + MaxOvershoot

\* The worker never printed a ready record and the call timed out.
C9_Witness ==
    /\ q_pc = "timeout"
    /\ api_state = None
    /\ n_sent = 0
    /\ now >= TimeoutTicks

(***************************************************************************)
(* Properties of the project / session / message commands.                 *)
(***************************************************************************)
\* C18: when delete_project(p) finds p it returns Ok and leaves no project
\* p, no session of p and no message list of a session that belonged to p
\* before the call; when it does not find p it returns "Project not found"
\* and changes none of the three maps.
C18_CascadeDelete ==
    [][\A t \in Tasks : delete_project(t) =>
         LET p == task[t].pid
             owned == {x \in DOMAIN sessions : sessions[x] = p}
         IN  IF p \in projects
             THEN /\ task'[t].result = "Ok"
                  /\ p \notin projects'
                  /\ \A x \in DOMAIN sessions' : sessions'[x] # p
                  /\ DOMAIN messages' \cap owned = {}
             ELSE /\ task'[t].result = "Project not found"
                  /\ UNCHANGED <<projects, sessions, messages>>]_vars

\* C19: in every reachable state every session's project_id is a key of
\* projects and every key of messages is the id of a stored session.
C19_ReferentialIntegrity ==
    /\ \A x \in DOMAIN sessions : sessions[x] \in projects
    /\ DOMAIN messages \subseteq DOMAIN sessions

\* The locks task t holds.
Held(t) == {l \in DOMAIN lock : lock[l] = t}
\* The global order: projects, then sessions, then messages.
Rank == [projects |-> 1, sessions |-> 2, messages |-> 3]
\* The lock a task inside delete_project or delete_session asks for next.
Wanted(t) == LockPlan(task[t].cmd)[task[t].k + 1]
\* Every task that holds locks asks only for a lock later in the order.
LockOrder ==
    \A t \in Tasks : task[t].pc = "lock" =>
        \A l \in Held(t) : Rank[l] < Rank[Wanted(t)]
\* Only delete_project and delete_session keep a lock from one step to the
\* next; in particular send_message holds none while the request is out.
NoLockAcrossAwait ==
    \A t \in Tasks : task[t].pc # "lock" => Held(t) = {}
\* The command of task t is running and is not waiting for the HTTP reply.
Runnable(t) == task[t].pc \notin {"idle", "http"}

\* C20: locks are taken in the order projects, sessions, messages, none is
\* held across the HTTP await, and under fair scheduling every command that
\* is not waiting for the network returns or reaches the HTTP await.
C20_DeadlockFreedom ==
    /\ [](LockOrder /\ NoLockAcrossAwait)
    /\ \A t \in Tasks : Runnable(t) ~> ~Runnable(t)

\* C20 witness: one task waits for a lock that another task holds while
\* that task waits for its next lock.
C20_Witness ==
    \E t, u \in Tasks :
        /\ t # u
        /\ task[t].pc = "lock"
        /\ task[u].pc = "lock"
        /\ lock[Wanted(u)] = t
        /\ Held(u) # {}

====
